---------------------------- MODULE Spec2Model ----------------------------
(***************************************************************************)
(* The PostgreSQL dependency supervision of the CLI service manager        *)
(* (cli/commands/service.py, class ServiceManager): one invocation of      *)
(* serve_local, with _ensure_postgres_dependency before the server is      *)
(* launched and _stop_postgres_dependency in the finally block.            *)
(*                                                                         *)
(* Texts are sequences of one-character strings, so that substring tests,  *)
(* strip() and lower() are computed and not assumed.  The element "CHECK"  *)
(* stands for the single character U+2705 (white heavy check mark) and     *)
(* "STOP" for U+1F6D1 (stop sign).                                         *)
(*                                                                         *)
(* Every blocking external call is one step.  Its outcome is drawn from    *)
(* the outcomes the call can have: an exit code with captured stderr, a    *)
(* subprocess.TimeoutExpired, a FileNotFoundError, any other OSError       *)
(* (e.g. PermissionError), or a KeyboardInterrupt delivered while waiting. *)
(*                                                                         *)
(* Four further specifications model other operations, each over its own   *)
(* variables while the rest of the state is at rest: SpecUninstall         *)
(* (ServiceManager.uninstall_environment and uninstall_main_only),         *)
(* SpecNotify (ai/workflows/shared/whatsapp_notification.py), SpecAgent    *)
(* (AgentService.serve_agent and stop_agent) and SpecRace (two serve_local *)
(* invocations that share the hive-postgres container).                    *)
(***************************************************************************)
EXTENDS Naturals, Sequences, FiniteSets

VARIABLES
    mainExists,        \* {workspace}/docker/main/docker-compose.yml exists
    rootExists,        \* {workspace}/docker-compose.yml exists
    envExists,         \* {workspace}/.env exists
    pc,                \* position of the serve_local invocation
    postgres_running,  \* serve_local local (line 78)
    postgres_started,  \* serve_local local (lines 65, 78)
    ens,               \* locals and result of _ensure_postgres_dependency
    td,                \* locals and result of _stop_postgres_dependency
    issued,            \* external command -> times it was invoked
    tdLog,             \* lines printed by the teardown, in order
    keepEnv,           \* value of HIVE_DEV_KEEP_POSTGRES as read at line 146
    use_graceful,      \* serve_local local (line 94)
    system,            \* platform.system() as read at line 104
    fresh,             \* what _is_postgres_dependency_active() gave at line 150
    stopperCalls,      \* times _stop_postgres_dependency was entered
    pending,           \* what serve_local does once the finally block is over
    outcome,           \* how serve_local ended
    freshStatus,       \* local `status` of _is_postgres_dependency_active (line 813)
    interrupted        \* a KeyboardInterrupt arrived while waiting on the server

\* ServiceManager.uninstall_environment and uninstall_main_only
VARIABLES
    upc,               \* position of the uninstall operation
    entry,             \* the uninstall operation that was called
    envInput,          \* what input() gave at line 531
    firstInput,        \* what input() gave at line 581
    secondInput,       \* what input() gave at line 594
    ms_calls,          \* MainService uninstall operation -> times invoked
    main_result,       \* how uninstall_main_only ended
    env_result         \* how uninstall_environment ended

\* ai/workflows/shared/whatsapp_notification.py
VARIABLES
    npc,               \* position of the notification operation
    nop,               \* the public operation that was called
    notification_type, \* argument of send_workflow_notification
    enabledEnv,        \* value of HIVE_WHATSAPP_NOTIFICATIONS_ENABLED
    delivery,          \* what each step of a send gave
    toolCalls,         \* times the send_text_message tool was invoked
    raised             \* the exception the operation left with, if any

\* AgentService.serve_agent and stop_agent (cli/core/agent_service.py)
VARIABLES
    apc,               \* position of the agent operation
    aop,               \* the operation that was called
    workspace_path,    \* the argument of the operation
    workspace,         \* local workspace (lines 103 and 130)
    envAgentExists,    \* {workspace}/.env.agent exists
    venvExists,        \* {workspace}/.venv exists
    agent_status,      \* local agent_status.name (lines 114 and 131)
    compose_result,    \* _start_agent_compose: local result (line 478)
    started_status,    \* _start_agent_compose: agent_status.name (line 489)
    acalls,            \* compose operation -> times invoked
    aresult            \* how the operation ended

\* two serve_local invocations on one workspace
VARIABLES
    rpc,               \* invocation -> its position in serve_local
    rstarted,          \* invocation -> its local postgres_started
    container,         \* state of the hive-postgres container
    tornBy             \* invocations whose teardown stopped or removed it

serveVars == << mainExists, rootExists, envExists, pc, postgres_running,
                postgres_started, ens, td, issued, tdLog, keepEnv,
                use_graceful, system, fresh, stopperCalls, pending, outcome,
                freshStatus, interrupted >>

uninstallVars == << upc, entry, envInput, firstInput, secondInput, ms_calls,
                    main_result, env_result >>

notifyVars == << npc, nop, notification_type, enabledEnv, delivery,
                 toolCalls, raised >>

agentVars == << apc, aop, workspace_path, workspace, envAgentExists,
                venvExists, agent_status, compose_result, started_status,
                acalls, aresult >>

raceVars == << rpc, rstarted, container, tornBy >>

vars == << serveVars, uninstallVars, notifyVars, agentVars, raceVars >>

\* what a step of one operation leaves alone: the state of the others
besidesServe == << uninstallVars, notifyVars, agentVars, raceVars >>
besidesUninstall == << serveVars, notifyVars, agentVars, raceVars >>
besidesNotify == << serveVars, uninstallVars, agentVars, raceVars >>
besidesAgent == << serveVars, uninstallVars, notifyVars, raceVars >>
besidesRace == << serveVars, uninstallVars, notifyVars, agentVars >>

---------------------------------------------------------------------------
(* Texts *)

\* str.lower() on the characters the environment values use
LowerChar(c) ==
    CASE c = "T" -> "t" [] c = "R" -> "r" [] c = "U" -> "u" [] c = "E" -> "e"
      [] c = "Y" -> "y" [] c = "S" -> "s" [] c = "O" -> "o" [] c = "N" -> "n"
      [] c = "F" -> "f" [] c = "A" -> "a" [] c = "L" -> "l"
      [] OTHER -> c

Lower(s) == [i \in 1..Len(s) |-> LowerChar(s[i])]

IsSpace(c) == c \in {" ", "\n", "\t"}

\* str.strip(): drop leading and trailing whitespace
RECURSIVE LStrip(_)
LStrip(s) == IF s # << >> /\ IsSpace(Head(s)) THEN LStrip(Tail(s)) ELSE s

RECURSIVE RStrip(_)
RStrip(s) ==
    IF s # << >> /\ IsSpace(s[Len(s)]) THEN RStrip(SubSeq(s, 1, Len(s) - 1)) ELSE s

Strip(s) == RStrip(LStrip(s))

\* the Python test `needle in hay` on strings
Contains(hay, needle) ==
    \E i \in 0..Len(hay) :
        /\ i + Len(needle) <= Len(hay)
        /\ SubSeq(hay, i + 1, i + Len(needle)) = needle

RunningMarker == << "CHECK", " ", "R", "u", "n", "n", "i", "n", "g" >>
CheckMark == << "CHECK" >>

---------------------------------------------------------------------------
(* Inputs: what the external collaborators can answer *)

\* Values of status.get("hive-postgres", "") that MainService.get_main_status
\* can hand back: the two labels the CLI shows, a label with the check mark
\* that is not "Running", and the empty default of a missing key.
StatusLabels ==
    { RunningMarker,
      << "STOP", " ", "S", "t", "o", "p", "p", "e", "d" >>,
      << "CHECK", " ", "H", "e", "a", "l", "t", "h", "y" >>,
      << >> }

\* A status probe gives a label, raises an Exception, or is interrupted.
ProbeOutcomes ==
    [kind : {"label"}, text : StatusLabels]
      \cup [kind : {"error", "interrupt"}, text : {<< >>}]

NoProbe == [kind |-> "none", text |-> << >>]

\* stderr texts of a failing command: empty, whitespace only, a message
StderrTexts == { << >>, << " " >>, << "E", "\n" >> }

\* subprocess.run(..., check=False, capture_output=True, timeout=...)
RunOutcomes ==
    [kind : {"exit"}, rc : {0}, stderr : {<< >>}]
      \cup [kind : {"exit"}, rc : {1}, stderr : StderrTexts]
      \cup [kind : {"timeout", "notfound", "oserror", "interrupt"},
            rc : {0}, stderr : {<< >>}]

NoRun == [kind |-> "none", rc |-> 0, stderr |-> << >>]

Succeeded(r) == r.kind = "exit" /\ r.rc = 0

\* the outcomes a command can fail with and have the failure handled
FailedHandled(r) ==
    \/ r.kind = "exit" /\ r.rc # 0
    \/ r.kind \in {"timeout", "notfound"}

\* the outcome is an exception no handler around the call names
Escapes(r) == r.kind \in {"oserror", "interrupt"}

ExcOf(r) == IF r.kind = "interrupt" THEN "KeyboardInterrupt" ELSE "OSError"

Commands ==
    { "probe", "compose_up", "server", "compose_stop", "docker_stop",
      "compose_rm", "docker_rm" }

Issue(c) == [issued EXCEPT ![c] = @ + 1]

---------------------------------------------------------------------------
(* _resolve_compose_file, lines 643-657 *)

\* mutant: the root-level candidate is returned without the exists() test
resolve_compose_file_unchecked ==
    IF mainExists THEN "main" ELSE "root"

\* mutant: the two candidates are tested in the other order
resolve_compose_file_rootfirst ==
    IF rootExists THEN "root"
    ELSE IF mainExists THEN "main"
    ELSE "none"

resolve_compose_file ==
    IF mainExists THEN "main"
    ELSE IF rootExists THEN "root"
    ELSE "none"

---------------------------------------------------------------------------
(* _ensure_postgres_dependency, lines 659-712 *)

NoEnsure ==
    [ status |-> NoProbe, compose_file |-> "unset", result |-> NoRun,
      ret |-> "none" ]

\* the return values: a tuple (is_running, started_by_manager), or the
\* exception that leaves the function
RetRunning == "True,False"
RetStarted == "True,True"
RetFailed  == "False,False"
RetInterrupt == "KeyboardInterrupt"

\* mutant: the label is compared with the bare word, without the check mark
ReportsRunning_plain(status) ==
    status.kind = "label" /\ status.text = << "R", "u", "n", "n", "i", "n", "g" >>

\* line 669: "✅ Running" in postgres_status
ReportsRunning(status) ==
    status.kind = "label" /\ Contains(status.text, RunningMarker)

\* mutant: the .env test of lines 679-682 is missing
AfterProbe_noenv(status, compose_file, env_exists) ==
    IF status.kind = "interrupt" THEN "interrupt"
    ELSE IF status.kind = "error" THEN "caught"
    ELSE IF ReportsRunning(status) THEN "running"
    ELSE IF compose_file = "none" THEN "no_compose"
    ELSE "start"

\* lines 669-684: what follows the probe.  A probe that raised an Exception
\* is caught at line 710; a KeyboardInterrupt is no Exception and leaves.
AfterProbe(status, compose_file, env_exists) ==
    IF status.kind = "interrupt" THEN "interrupt"
    ELSE IF status.kind = "error" THEN "caught"
    ELSE IF ReportsRunning(status) THEN "running"
    ELSE IF compose_file = "none" THEN "no_compose"
    ELSE IF ~env_exists THEN "no_env"
    ELSE "start"

\* mutant: a start that timed out is reported as started by the manager
\* although the dependency is not known to run
StartReturn_unverified(r) ==
    IF r.kind = "interrupt" THEN RetInterrupt
    ELSE IF r.kind = "exit" /\ r.rc = 0 THEN RetStarted
    ELSE IF r.kind = "timeout" THEN "False,True"
    ELSE RetFailed

\* mutant: the returncode test of line 696 is missing
StartReturn_nocheck(r) ==
    IF r.kind = "interrupt" THEN RetInterrupt
    ELSE IF r.kind = "exit" THEN RetStarted
    ELSE RetFailed

\* lines 696-712: the value returned for an outcome of `compose up`
StartReturn(r) ==
    IF r.kind = "interrupt" THEN RetInterrupt
    ELSE IF r.kind = "exit" /\ r.rc = 0 THEN RetStarted
    ELSE RetFailed

ensure_probe ==
    /\ pc = "ensure_probe"
    /\ \E status \in ProbeOutcomes :
         LET \* line 673 is reached only for a label that is not Running
             resolved == IF status.kind = "label" /\ ~ReportsRunning(status)
                         THEN resolve_compose_file ELSE "unset"
             step == AfterProbe(status, resolved, envExists)
         IN  /\ issued' = Issue("probe")
             /\ ens' = [ status |-> status,
                         compose_file |-> resolved,
                         result |-> NoRun,
                         ret |-> CASE step = "interrupt" -> RetInterrupt
                                   [] step = "running" -> RetRunning
                                   [] step = "start" -> "none"
                                   [] OTHER -> RetFailed ]
             /\ pc' = IF step = "start" THEN "ensure_start" ELSE "ensure_return"
    /\ UNCHANGED << mainExists, rootExists, envExists, postgres_running,
                    postgres_started, td, tdLog, keepEnv, use_graceful,
                    system, fresh, stopperCalls, pending, outcome,
                    freshStatus, interrupted >>
    /\ UNCHANGED besidesServe

ensure_start ==
    /\ pc = "ensure_start"
    /\ \E r \in RunOutcomes :
         /\ issued' = Issue("compose_up")
         /\ ens' = [ens EXCEPT !.result = r, !.ret = StartReturn(r)]
    /\ pc' = "ensure_return"
    /\ UNCHANGED << mainExists, rootExists, envExists, postgres_running,
                    postgres_started, td, tdLog, keepEnv, use_graceful,
                    system, fresh, stopperCalls, pending, outcome, freshStatus,
           interrupted,
                    freshStatus, interrupted >>
    /\ UNCHANGED besidesServe

---------------------------------------------------------------------------
(* serve_local, lines 60-151: up to the finally block *)

NoPending == [kind |-> "none", val |-> FALSE, exc |-> "none"]
Return(v) == [kind |-> "return", val |-> v, exc |-> "none"]
Raise(e)  == [kind |-> "raise", val |-> FALSE, exc |-> e]

\* an environment variable that is not set
Unset == << "UNSET" >>

\* os.getenv(name, default)
Getenv(v, default) == IF v = Unset THEN default ELSE v

\* line 94: os.getenv("HIVE_DEV_GRACEFUL", "0").lower() not in ("0", "false", "no")
UseGraceful(v) ==
    Lower(Getenv(v, << "0" >>))
        \notin { << "0" >>, << "f", "a", "l", "s", "e" >>, << "n", "o" >> }

GracefulValues == { Unset, << "1" >>, << "N", "o" >> }

\* lines 65-75: postgres_started = False, then host and port are read;
\* int() of a HIVE_API_PORT that is no number raises ValueError, which no
\* handler of serve_local names
serve_enter ==
    /\ pc = "serve_entry"
    /\ postgres_started' = FALSE
    /\ \E portParses \in BOOLEAN :
         IF portParses
         THEN pc' = "ensure_probe" /\ pending' = pending
         ELSE pc' = "finally" /\ pending' = Raise("ValueError")
    /\ UNCHANGED << mainExists, rootExists, envExists, postgres_running, ens,
                    td, issued, tdLog, keepEnv, use_graceful, system, fresh,
                    stopperCalls, outcome,
                    freshStatus, interrupted >>
    /\ UNCHANGED besidesServe

\* lines 78-94: the tuple is unpacked, the command is built and the mode is
\* read.  A KeyboardInterrupt out of _ensure_postgres_dependency leaves the
\* try body with nothing assigned.
\* mutant: a failed dependency check makes serve_local give up before the
\* server is launched
AfterEnsure_abort(ret, graceful) ==
    IF ret \in {RetInterrupt, RetFailed} THEN "finally"
    ELSE IF graceful THEN "popen"
    ELSE "run_default"

\* mutant: a failed dependency check is run again until it succeeds
AfterEnsure_retry(ret, graceful) ==
    IF ret = RetInterrupt THEN "finally"
    ELSE IF ret = RetFailed THEN "ensure_probe"
    ELSE IF graceful THEN "popen"
    ELSE "run_default"

\* lines 78-96: where serve_local goes with what _ensure_postgres_dependency
\* gave; a dependency that is not running only prints a warning (line 80)
AfterEnsure(ret, graceful) ==
    IF ret = RetInterrupt THEN "finally"
    ELSE IF graceful THEN "popen"
    ELSE "run_default"

serve_after_ensure ==
    /\ pc = "ensure_return"
    /\ ens' = NoEnsure
    /\ IF ens.ret = RetInterrupt
       THEN /\ pending' = Raise("KeyboardInterrupt")
            /\ pc' = AfterEnsure(ens.ret, use_graceful)
            /\ UNCHANGED << postgres_running, postgres_started, use_graceful >>
       ELSE /\ postgres_running' = (ens.ret \in {RetRunning, RetStarted})
            /\ postgres_started' = (ens.ret = RetStarted)
            /\ \E g \in GracefulValues :
                 /\ use_graceful' = UseGraceful(g)
                 /\ pc' = AfterEnsure(ens.ret, UseGraceful(g))
            /\ pending' = pending
    /\ UNCHANGED << mainExists, rootExists, envExists, td, issued, tdLog,
                    keepEnv, system, fresh, stopperCalls, outcome,
                    freshStatus, interrupted >>
    /\ UNCHANGED besidesServe

\* lines 96-102 with the handler of lines 142-144: subprocess.run(cmd, check=False)
ServerRunOutcomes == {"exit0", "exit1", "interrupt", "oserror", "error"}

RunDefaultResult(o) ==
    CASE o \in {"exit0", "exit1"} -> Return(TRUE)
      [] o = "interrupt" -> Return(TRUE)
      [] o = "oserror" -> Return(FALSE)
      [] OTHER -> Raise("Exception")

serve_run_default ==
    /\ pc = "run_default"
    /\ \E o \in ServerRunOutcomes :
         /\ pending' = RunDefaultResult(o)
         /\ interrupted' = (o = "interrupt")
    /\ issued' = Issue("server")
    /\ pc' = "finally"
    /\ UNCHANGED << mainExists, rootExists, envExists, postgres_running,
                    postgres_started, ens, td, tdLog, keepEnv, use_graceful,
                    system, fresh, stopperCalls, outcome, freshStatus >>
    /\ UNCHANGED besidesServe

\* lines 104-112: subprocess.Popen in a process group of its own; an OSError
\* (the launcher is missing) is handled at line 142, a SubprocessError of
\* the preexec_fn is not
Systems == {"Linux", "Windows"}

serve_popen ==
    /\ pc = "popen"
    /\ \E s \in Systems : system' = s
    /\ issued' = Issue("server")
    /\ \E o \in {"ok", "oserror", "error"} :
         CASE o = "ok" -> pc' = "wait" /\ pending' = pending
           [] o = "oserror" -> pc' = "finally" /\ pending' = Return(FALSE)
           [] OTHER -> pc' = "finally" /\ pending' = Raise("Exception")
    /\ UNCHANGED << mainExists, rootExists, envExists, postgres_running,
                    postgres_started, ens, td, tdLog, keepEnv, use_graceful,
                    fresh, stopperCalls, outcome,
                    freshStatus, interrupted >>
    /\ UNCHANGED besidesServe

\* lines 114-117: proc.wait()
serve_wait ==
    /\ pc = "wait"
    /\ \E o \in {"exit0", "exit1", "interrupt"} :
         /\ interrupted' = (o = "interrupt")
         /\ IF o = "interrupt"
            THEN pc' = "signal" /\ pending' = pending
            ELSE pc' = "finally" /\ pending' = Return(o = "exit0")
    /\ UNCHANGED << mainExists, rootExists, envExists, postgres_running,
                    postgres_started, ens, td, issued, tdLog, keepEnv,
                    use_graceful, system, fresh, stopperCalls, outcome,
                    freshStatus >>
    /\ UNCHANGED besidesServe

\* lines 119-133: the child is signalled.  On POSIX only ProcessLookupError
\* is caught around os.killpg; another OSError (PermissionError) reaches the
\* handler of line 142.  On Windows every Exception of send_signal is caught.
serve_signal ==
    /\ pc = "signal"
    /\ \E o \in {"ok", "lookup", "oserror"} :
         IF system # "Windows" /\ o = "oserror"
         THEN pc' = "finally" /\ pending' = Return(FALSE)
         ELSE pc' = "wait10" /\ pending' = pending
    /\ UNCHANGED << mainExists, rootExists, envExists, postgres_running,
                    postgres_started, ens, td, issued, tdLog, keepEnv,
                    use_graceful, system, fresh, stopperCalls, outcome,
                    freshStatus, interrupted >>
    /\ UNCHANGED besidesServe

\* lines 125-128 and 134-141: proc.wait(timeout=10); any Exception (the
\* timeout) escalates to a kill whose own errors are swallowed; a further
\* KeyboardInterrupt is no Exception
serve_wait_bounded ==
    /\ pc = "wait10"
    /\ \E o \in {"exited", "timeout", "interrupt"} :
         pending' = IF o = "interrupt" THEN Raise("KeyboardInterrupt")
                    ELSE Return(TRUE)
    /\ pc' = "finally"
    /\ UNCHANGED << mainExists, rootExists, envExists, postgres_running,
                    postgres_started, ens, td, issued, tdLog, keepEnv,
                    use_graceful, system, fresh, stopperCalls, outcome,
                    freshStatus, interrupted >>
    /\ UNCHANGED besidesServe

---------------------------------------------------------------------------
(* serve_local, lines 145-151: the finally block *)

\* mutant: the override is read the way line 94 reads HIVE_DEV_GRACEFUL,
\* as set unless it is one of the falsy words
KeepPostgres_nonfalsy(v) ==
    Lower(Getenv(v, << "0" >>))
        \notin { << "0" >>, << "f", "a", "l", "s", "e" >>, << "n", "o" >> }

\* mutant: the value is compared without lower()
KeepPostgres_cased(v) ==
    Getenv(v, << "0" >>)
        \in { << "1" >>, << "t", "r", "u", "e" >>, << "y", "e", "s" >> }

\* line 146: os.getenv("HIVE_DEV_KEEP_POSTGRES", "0").lower() in ("1", "true", "yes")
KeepPostgres(v) ==
    Lower(Getenv(v, << "0" >>))
        \in { << "1" >>, << "t", "r", "u", "e" >>, << "y", "e", "s" >> }

KeepValues ==
    { Unset, << "1" >>, << "T", "r", "u", "e" >>, << "Y", "E", "S" >>,
      << "0" >>, << "o", "n" >>, << >>, << "n", "o" >>,
      << "F", "A", "L", "S", "E" >> }

\* mutant: without the override the teardown runs unconditionally
AfterFinally_always(keep_postgres, started) ==
    IF keep_postgres THEN "exit" ELSE "td_begin"

\* lines 147-150: what the finally block does first
AfterFinally(keep_postgres, started) ==
    IF keep_postgres THEN "exit"
    ELSE IF started THEN "td_begin"
    ELSE "fresh_probe"

serve_finally ==
    /\ pc = "finally"
    /\ \E v \in KeepValues :
         /\ keepEnv' = v
         /\ pc' = AfterFinally(KeepPostgres(v), postgres_started)
    /\ UNCHANGED << mainExists, rootExists, envExists, postgres_running,
                    postgres_started, ens, td, issued, tdLog, use_graceful,
                    system, fresh, stopperCalls, pending, outcome,
                    freshStatus, interrupted >>
    /\ UNCHANGED besidesServe

\* mutant: a probe that raised is taken for an active dependency
is_postgres_dependency_active_optimistic(status) ==
    CASE status.kind = "interrupt" -> "KeyboardInterrupt"
      [] status.kind = "error" -> "True"
      [] OTHER -> IF Contains(status.text, CheckMark) THEN "True" ELSE "False"

\* _is_postgres_dependency_active, lines 810-816: "✅" in the label; an
\* Exception of the probe gives False, a KeyboardInterrupt leaves
is_postgres_dependency_active(status) ==
    CASE status.kind = "interrupt" -> "KeyboardInterrupt"
      [] status.kind = "error" -> "False"
      [] OTHER -> IF Contains(status.text, CheckMark) THEN "True" ELSE "False"

\* mutant: only postgres_started decides, the freshness probe is ignored
AfterFresh_ignored(active) == "exit"

\* line 150, second operand of the `or`
AfterFresh(active) ==
    CASE active = "True" -> "td_begin"
      [] OTHER -> "exit"

serve_fresh_probe ==
    /\ pc = "fresh_probe"
    /\ \E status \in ProbeOutcomes :
         LET active == is_postgres_dependency_active(status)
         IN  /\ fresh' = active
             /\ freshStatus' = status
             /\ pc' = AfterFresh(active)
             /\ pending' = IF active = "KeyboardInterrupt"
                           THEN Raise("KeyboardInterrupt") ELSE pending
    /\ issued' = Issue("probe")
    /\ UNCHANGED << mainExists, rootExists, envExists, postgres_running,
                    postgres_started, ens, td, tdLog, keepEnv, use_graceful,
                    system, stopperCalls, outcome,
                    interrupted >>
    /\ UNCHANGED besidesServe

\* the finally block is over: serve_local returns or raises
serve_exit ==
    /\ pc = "exit"
    /\ outcome' = pending
    /\ pc' = "done"
    /\ UNCHANGED << mainExists, rootExists, envExists, postgres_running,
                    postgres_started, ens, td, issued, tdLog, keepEnv,
                    use_graceful, system, fresh, stopperCalls, pending,
                    freshStatus, interrupted >>
    /\ UNCHANGED besidesServe

---------------------------------------------------------------------------
(* _stop_postgres_dependency, lines 714-761, with _stop_postgres_by_container
   (763-787) and _remove_postgres_by_container (789-808) *)

NoTeardown ==
    [ state |-> "none", compose_args |-> "unset", stopped |-> FALSE,
      stop_result |-> NoRun, direct_stop |-> NoRun,
      rm_result |-> NoRun, direct_rm |-> NoRun ]

Line(layer, warn, text) == [layer |-> layer, warn |-> warn, text |-> text]

\* lines 730-738: what is printed for an outcome of `compose stop`
ComposeStopLines(r) ==
    CASE Succeeded(r) -> << Line("compose_stop", FALSE, "stopped") >>
      [] r.kind = "exit" -> << Line("compose_stop", TRUE, "issue") >>
      [] r.kind = "timeout" -> << Line("compose_stop", TRUE, "timeout") >>
      [] r.kind = "notfound" -> << Line("compose_stop", TRUE, "notfound") >>
      [] OTHER -> << >>

\* lines 773-787: what is printed for an outcome of `docker stop`
DirectStopLines(r) ==
    CASE Succeeded(r) -> << Line("docker_stop", FALSE, "stopped") >>
      [] r.kind = "exit" ->
            IF Strip(r.stderr) # << >>
            THEN << Line("docker_stop", TRUE, "issue") >> ELSE << >>
      [] r.kind = "timeout" -> << Line("docker_stop", TRUE, "timeout") >>
      [] r.kind = "notfound" -> << Line("docker_stop", TRUE, "notfound") >>
      [] OTHER -> << >>

\* lines 752-759: what is printed for an outcome of `compose rm -f`
ComposeRmLines(r) ==
    CASE Succeeded(r) -> << Line("compose_rm", FALSE, "removed") >>
      [] r.kind = "exit" -> << Line("compose_rm", TRUE, "issue") >>
      [] r.kind = "timeout" -> << Line("compose_rm", TRUE, "timeout") >>
      [] r.kind = "notfound" -> << Line("compose_rm", TRUE, "notfound") >>
      [] OTHER -> << >>

\* lines 799-808: what is printed for an outcome of `docker rm -f`
DirectRmLines(r) ==
    CASE Succeeded(r) -> << Line("docker_rm", FALSE, "removed") >>
      [] r.kind = "exit" ->
            IF Strip(r.stderr) # << >>
            THEN << Line("docker_rm", TRUE, "issue") >> ELSE << >>
      [] r.kind = "timeout" -> << Line("docker_rm", TRUE, "timeout") >>
      [] r.kind = "notfound" -> << Line("docker_rm", TRUE, "notfound") >>
      [] OTHER -> << >>

\* mutant: the FileNotFoundError handlers are missing
TeardownRaises_nohandler(r) == Escapes(r) \/ r.kind = "notfound"

\* the except clauses around each subprocess.run of the teardown
\* (lines 735-738, 756-759, 773-778, 805-808): what they do not name
\* leaves _stop_postgres_dependency
TeardownRaises(r) == Escapes(r)

\* mutant: the direct stop runs whatever the compose-based stop gave
NeedDirectStop_always(stopped) == TRUE

\* line 740: if not stopped
NeedDirectStop(stopped) == ~stopped

\* mutant: a successful stop is tested before the compose file
RemoveStep_swapped(compose_args, stopped) ==
    IF stopped THEN "td_direct_rm"
    ELSE IF compose_args # "none" THEN "td_compose_rm"
    ELSE "td_return"

\* mutant: nothing is removed unless a stop succeeded
RemoveStep_onlystopped(compose_args, stopped) ==
    IF ~stopped THEN "td_return"
    ELSE IF compose_args # "none" THEN "td_compose_rm"
    ELSE "td_direct_rm"

\* lines 743 and 760: the removal step
RemoveStep(compose_args, stopped) ==
    IF compose_args # "none" THEN "td_compose_rm"
    ELSE IF stopped THEN "td_direct_rm"
    ELSE "td_return"

\* mutant: the direct stop is repeated until it succeeds
AfterStop_retry(compose_args, stopped, direct_tried) ==
    IF NeedDirectStop(stopped) THEN "td_direct_stop"
    ELSE RemoveStep(compose_args, stopped)

\* lines 740-761 after the stop layer `stopped` came out of
AfterStop(compose_args, stopped, direct_tried) ==
    IF ~direct_tried /\ NeedDirectStop(stopped) THEN "td_direct_stop"
    ELSE RemoveStep(compose_args, stopped)

\* where a step of the teardown goes: an escaping exception ends the
\* finally block and replaces what serve_local was about to do
TdGoto(r, next) ==
    IF TeardownRaises(r)
    THEN /\ pc' = "exit"
         /\ pending' = Raise(ExcOf(r))
    ELSE /\ pc' = IF next = "td_return" THEN "exit" ELSE next
         /\ pending' = pending

TdState(r, next) ==
    IF TeardownRaises(r) THEN "raised"
    ELSE IF next = "td_return" THEN "returned"
    ELSE "active"

\* lines 714-721
stop_postgres_dependency ==
    /\ pc = "td_begin"
    /\ stopperCalls' = stopperCalls + 1
    /\ LET compose_args == resolve_compose_file
       IN  /\ td' = [NoTeardown EXCEPT !.state = "active",
                                       !.compose_args = compose_args]
           /\ pc' = IF compose_args # "none" THEN "td_compose_stop"
                    ELSE AfterStop(compose_args, FALSE, FALSE)
    /\ UNCHANGED << mainExists, rootExists, envExists, postgres_running,
                    postgres_started, ens, issued, tdLog, keepEnv,
                    use_graceful, system, fresh, pending, outcome,
                    freshStatus, interrupted >>
    /\ UNCHANGED besidesServe

\* lines 721-738
compose_stop ==
    /\ pc = "td_compose_stop"
    /\ \E r \in RunOutcomes :
         LET stopped == Succeeded(r)
             next == AfterStop(td.compose_args, stopped, FALSE)
         IN  /\ td' = [td EXCEPT !.stop_result = r, !.stopped = stopped,
                                 !.state = TdState(r, next)]
             /\ tdLog' = tdLog \o ComposeStopLines(r)
             /\ TdGoto(r, next)
    /\ issued' = Issue("compose_stop")
    /\ UNCHANGED << mainExists, rootExists, envExists, postgres_running,
                    postgres_started, ens, keepEnv, use_graceful, system,
                    fresh, stopperCalls, outcome,
                    freshStatus, interrupted >>
    /\ UNCHANGED besidesServe

\* lines 740-741 and 763-787
stop_postgres_by_container ==
    /\ pc = "td_direct_stop"
    /\ \E r \in RunOutcomes :
         LET stopped == Succeeded(r)
             next == AfterStop(td.compose_args, stopped, TRUE)
         IN  /\ td' = [td EXCEPT !.direct_stop = r, !.stopped = stopped,
                                 !.state = TdState(r, next)]
             /\ tdLog' = tdLog \o DirectStopLines(r)
             /\ TdGoto(r, next)
    /\ issued' = Issue("docker_stop")
    /\ UNCHANGED << mainExists, rootExists, envExists, postgres_running,
                    postgres_started, ens, keepEnv, use_graceful, system,
                    fresh, stopperCalls, outcome,
                    freshStatus, interrupted >>
    /\ UNCHANGED besidesServe

\* mutant: a compose-based remove that failed falls back to the remove by
\* container name
AfterComposeRm_fallback(r) ==
    IF Succeeded(r) THEN "td_return" ELSE "td_direct_rm"

\* lines 744-759: the compose-based remove is the last step of the branch
\* of line 743, whatever it gave; line 760 is the `elif` of that branch
AfterComposeRm(r) == "td_return"

\* lines 743-759
compose_rm ==
    /\ pc = "td_compose_rm"
    /\ \E r \in RunOutcomes :
         /\ td' = [td EXCEPT !.rm_result = r,
                             !.state = TdState(r, AfterComposeRm(r))]
         /\ tdLog' = tdLog \o ComposeRmLines(r)
         /\ TdGoto(r, AfterComposeRm(r))
    /\ issued' = Issue("compose_rm")
    /\ UNCHANGED << mainExists, rootExists, envExists, postgres_running,
                    postgres_started, ens, keepEnv, use_graceful, system,
                    fresh, stopperCalls, outcome,
                    freshStatus, interrupted >>
    /\ UNCHANGED besidesServe

\* lines 760-761 and 789-808
remove_postgres_by_container ==
    /\ pc = "td_direct_rm"
    /\ \E r \in RunOutcomes :
         /\ td' = [td EXCEPT !.direct_rm = r,
                             !.state = TdState(r, "td_return")]
         /\ tdLog' = tdLog \o DirectRmLines(r)
         /\ TdGoto(r, "td_return")
    /\ issued' = Issue("docker_rm")
    /\ UNCHANGED << mainExists, rootExists, envExists, postgres_running,
                    postgres_started, ens, keepEnv, use_graceful, system,
                    fresh, stopperCalls, outcome,
                    freshStatus, interrupted >>
    /\ UNCHANGED besidesServe

---------------------------------------------------------------------------
(* The operations at rest: the state of an operation that was not called *)

\* input() was not called
NoInput == [kind |-> "none", text |-> << >>]

\* the two uninstall operations of MainService (lines 589 and 599)
MsOperations == {"uninstall_preserve_data", "uninstall_wipe_data"}

UninstallIdle ==
    /\ upc = "idle"
    /\ entry = "none"
    /\ envInput = NoInput
    /\ firstInput = NoInput
    /\ secondInput = NoInput
    /\ ms_calls = [o \in MsOperations |-> 0]
    /\ main_result = NoPending
    /\ env_result = NoPending

\* no step of a send was taken
NoDelivery == [agent |-> "none", tools |-> "none", call |-> "none"]

NotifyIdle ==
    /\ npc = "idle"
    /\ nop = "none"
    /\ notification_type = "none"
    /\ enabledEnv = Unset
    /\ delivery = NoDelivery
    /\ toolCalls = 0
    /\ raised = "none"

\* what AgentService asks of its DockerComposeManager and of docker
AgentCommands ==
    {"get_service_status", "compose_up", "get_service_logs", "stop_service"}

AgentIdle ==
    /\ apc = "idle"
    /\ aop = "none"
    /\ workspace_path = "unset"
    /\ workspace = "unset"
    /\ envAgentExists = FALSE
    /\ venvExists = FALSE
    /\ agent_status = "unset"
    /\ compose_result = NoRun
    /\ started_status = "unset"
    /\ acalls = [c \in AgentCommands |-> 0]
    /\ aresult = NoPending

\* the two terminals
Invocations == {"a", "b"}

RaceIdle ==
    /\ rpc = [i \in Invocations |-> "idle"]
    /\ rstarted = [i \in Invocations |-> FALSE]
    /\ container = "absent"
    /\ tornBy = {}

ServeIdle ==
    /\ mainExists = FALSE
    /\ rootExists = FALSE
    /\ envExists = FALSE
    /\ pc = "idle"
    /\ postgres_running = FALSE
    /\ postgres_started = FALSE
    /\ ens = NoEnsure
    /\ td = NoTeardown
    /\ issued = [c \in Commands |-> 0]
    /\ tdLog = << >>
    /\ keepEnv = Unset
    /\ use_graceful = FALSE
    /\ system = "unset"
    /\ fresh = "unset"
    /\ stopperCalls = 0
    /\ pending = NoPending
    /\ outcome = NoPending
    /\ freshStatus = NoProbe
    /\ interrupted = FALSE

---------------------------------------------------------------------------
(* ServiceManager.uninstall_environment, lines 517-567, and                 *)
(* uninstall_main_only, lines 569-607.  MainService is outside this         *)
(* source: what its uninstall operations give is an input.                  *)

\* what the user types at the prompt of line 531
WipeAllTexts ==
    { << "W", "I", "P", "E", " ", "A", "L", "L" >>,
      << "W", "I", "P", "E", " ", "A", "L", "L", " " >>,
      << "w", "i", "p", "e", " ", "a", "l", "l" >>,
      << "W", "I", "P", "E" >>,
      << "y", "e", "s" >>,
      << >> }

\* what the user types at the prompt of line 581
PreserveTexts ==
    { << "n" >>, << "N" >>, << "n", "o" >>, << " ", "N", "o", " " >>,
      << "y" >>, << "y", "e", "s" >>, << "n", "o", "n", "e" >>, << >> }

\* what the user types at the prompt of line 594
ConfirmTexts ==
    { << "y", "e", "s" >>, << "Y", "E", "S" >>, << " ", "Y", "e", "s", "\t" >>,
      << "y" >>, << "n", "o" >>, << >> }

\* input() gives a line, raises EOFError, is interrupted, or raises another
\* Exception (a closed or undecodable stdin)
InputOutcomes(texts) ==
    [kind : {"text"}, text : texts]
      \cup [kind : {"eof", "interrupt", "error"}, text : {<< >>}]

\* what a MainService uninstall operation gives: its bool, an Exception, or
\* a KeyboardInterrupt while it runs
MsOutcomes == {"True", "False", "error", "interrupt"}

\* lines 530-534: response = input().strip(), nothing lower-cased
EnvResponse(o) == IF o.kind = "text" THEN Strip(o.text) ELSE << >>

\* mutant: any answer that is not empty confirms
WipeAllConfirmed_nonempty(o) ==
    o.kind = "text" /\ EnvResponse(o) # << >>

\* lines 530-539: the uninstall goes on only for a line that reads WIPE ALL
\* once stripped; EOFError and KeyboardInterrupt return False at line 534,
\* another Exception of input() at line 567
WipeAllConfirmed(o) ==
    o.kind = "text" /\ EnvResponse(o) = << "W", "I", "P", "E", " ", "A", "L", "L" >>

\* lines 580-583 and 593-596: input().strip().lower(), with a default when
\* input() raised EOFError or KeyboardInterrupt
Answer(o, default) ==
    IF o.kind = "text" THEN Lower(Strip(o.text)) ELSE default

\* line 585
preserve_data(response) == response \notin { << "n" >>, << "n", "o" >> }

\* mutant: any answer that begins with y confirms the wipe
WipeConfirmed_prefix(confirm) == confirm # << >> /\ Head(confirm) = "y"

\* line 598
WipeConfirmed(confirm) == confirm = << "y", "e", "s" >>

\* lines 546-563: what uninstall_environment returns for what
\* uninstall_main_only gave.  uninstall_main_only raises no Exception (line
\* 605), so the handler of line 552 has nothing to catch; a
\* KeyboardInterrupt passes through both functions.
EnvResult(r) ==
    IF r.kind = "raise" THEN r
    ELSE IF r.val THEN Return(TRUE)
    ELSE Return(FALSE)

\* uninstall_main_only is over with r: the operation called directly is
\* done, uninstall_environment goes on at line 547
MainReturns(r) ==
    /\ main_result' = r
    /\ env_result' = IF entry = "uninstall_environment" THEN EnvResult(r)
                     ELSE env_result
    /\ upc' = "done"

\* lines 589 and 599 with the handler of line 605
MsResult(o) ==
    CASE o = "True" -> Return(TRUE)
      [] o = "False" -> Return(FALSE)
      [] o = "error" -> Return(FALSE)
      [] OTHER -> Raise("KeyboardInterrupt")

\* lines 519-539: the prompt of uninstall_environment
env_prompt ==
    /\ upc = "env_prompt"
    /\ \E o \in InputOutcomes(WipeAllTexts) :
         /\ envInput' = o
         /\ IF WipeAllConfirmed(o)
            THEN upc' = "first_prompt" /\ env_result' = env_result
            ELSE upc' = "done" /\ env_result' = Return(FALSE)
    /\ UNCHANGED << entry, firstInput, secondInput, ms_calls, main_result >>
    /\ UNCHANGED besidesUninstall

\* lines 571-587 and 591-592: the first prompt of uninstall_main_only
first_prompt ==
    /\ upc = "first_prompt"
    /\ \E o \in InputOutcomes(PreserveTexts) :
         /\ firstInput' = o
         /\ IF o.kind = "error"
            THEN MainReturns(Return(FALSE))
            ELSE /\ upc' = IF preserve_data(Answer(o, << "y" >>))
                           THEN "preserve" ELSE "second_prompt"
                 /\ UNCHANGED << main_result, env_result >>
    /\ UNCHANGED << entry, envInput, secondInput, ms_calls >>
    /\ UNCHANGED besidesUninstall

\* lines 593-602: the second prompt
second_prompt ==
    /\ upc = "second_prompt"
    /\ \E o \in InputOutcomes(ConfirmTexts) :
         /\ secondInput' = o
         /\ IF o.kind = "error"
            THEN MainReturns(Return(FALSE))
            ELSE IF WipeConfirmed(Answer(o, << "n", "o" >>))
            THEN upc' = "wipe" /\ UNCHANGED << main_result, env_result >>
            ELSE MainReturns(Return(FALSE))
    /\ UNCHANGED << entry, envInput, firstInput, ms_calls >>
    /\ UNCHANGED besidesUninstall

\* lines 588-589 and 604
uninstall_preserve_data ==
    /\ upc = "preserve"
    /\ ms_calls' = [ms_calls EXCEPT !["uninstall_preserve_data"] = @ + 1]
    /\ \E o \in MsOutcomes : MainReturns(MsResult(o))
    /\ UNCHANGED << entry, envInput, firstInput, secondInput >>
    /\ UNCHANGED besidesUninstall

\* lines 598-599 and 604
uninstall_wipe_data ==
    /\ upc = "wipe"
    /\ ms_calls' = [ms_calls EXCEPT !["uninstall_wipe_data"] = @ + 1]
    /\ \E o \in MsOutcomes : MainReturns(MsResult(o))
    /\ UNCHANGED << entry, envInput, firstInput, secondInput >>
    /\ UNCHANGED besidesUninstall

\* one of the two operations was called on a fresh ServiceManager
InitUninstall ==
    /\ entry \in {"uninstall_environment", "uninstall_main_only"}
    /\ upc = IF entry = "uninstall_environment" THEN "env_prompt"
             ELSE "first_prompt"
    /\ envInput = NoInput
    /\ firstInput = NoInput
    /\ secondInput = NoInput
    /\ ms_calls = [o \in MsOperations |-> 0]
    /\ main_result = NoPending
    /\ env_result = NoPending
    /\ ServeIdle
    /\ NotifyIdle
    /\ AgentIdle
    /\ RaceIdle

NextUninstall ==
    \/ env_prompt
    \/ first_prompt
    \/ second_prompt
    \/ uninstall_preserve_data
    \/ uninstall_wipe_data

SpecUninstall == InitUninstall /\ [][NextUninstall]_vars

---------------------------------------------------------------------------
(* ai/workflows/shared/whatsapp_notification.py: send_workflow_notification *)
(* (lines 441-477) and the three send methods of                            *)
(* WhatsAppNotificationService (lines 112-166, 168-222, 368-425).  The MCP  *)
(* tools and the agent are outside this source: what they give is an input. *)

\* values of HIVE_WHATSAPP_NOTIFICATIONS_ENABLED
EnabledValues ==
    { Unset, << "t", "r", "u", "e" >>, << "T", "R", "U", "E" >>,
      << "T", "r", "u", "e" >>, << "f", "a", "l", "s", "e" >>, << "1" >>,
      << >> }

\* lines 70 and 458: os.getenv(..., "false").lower() == "true"
NotificationsEnabled(v) ==
    Lower(Getenv(v, << "f", "a", "l", "s", "e" >>)) = << "t", "r", "u", "e" >>

\* notification_type arguments: the three of lines 465-469, and others
NotificationTypes ==
    { "typification_report", "human_handoff", "custom", "Custom", "report", "" }

ServiceMethods ==
    { "send_typification_report", "send_human_handoff_notification",
      "send_custom_message" }

PublicOperations == {"send_workflow_notification"} \cup ServiceMethods

\* mutant: a type that is not known is sent as a custom message
Dispatch_default(t) ==
    CASE t = "typification_report" -> "send_typification_report"
      [] t = "human_handoff" -> "send_human_handoff_notification"
      [] OTHER -> "send_custom_message"

\* lines 465-477: the method send_workflow_notification hands the data to
Dispatch(t) ==
    CASE t = "typification_report" -> "send_typification_report"
      [] t = "human_handoff" -> "send_human_handoff_notification"
      [] t = "custom" -> "send_custom_message"
      [] OTHER -> "unknown"

\* the methods that begin with _check_notifications_enabled: line 386 is
\* the only call of it
Gated(method) == method = "send_custom_message"

\* what a step of a send can give: done, an Exception, the tool missing
\* from tools.functions (line 149), or the awaiting task cancelled
AgentOutcomes == {"ok", "error"}
ToolsOutcomes == {"ok", "no_tool", "error", "cancelled"}
CallOutcomes == {"ok", "error", "cancelled"}

\* lines 163-166, 219-222 and 422-425: `except Exception` turns every
\* Exception of the try body, the NotificationError of a missing tool
\* included, into NotificationError; asyncio.CancelledError is a
\* BaseException and passes
Surfaces(o) ==
    CASE o \in {"error", "no_tool"} -> "NotificationError"
      [] o = "cancelled" -> "CancelledError"
      [] OTHER -> "none"

\* a send method is entered: line 386 for the gated one, then the try body
EnterMethod(method) ==
    IF Gated(method) /\ ~NotificationsEnabled(enabledEnv)
    THEN npc' = "done" /\ raised' = "NotificationError"
    ELSE npc' = "get_agent" /\ raised' = raised

\* lines 457-477
send_workflow_notification ==
    /\ npc = "called"
    /\ nop = "send_workflow_notification"
    /\ IF ~NotificationsEnabled(enabledEnv) \/ Dispatch(notification_type) = "unknown"
       THEN npc' = "done" /\ raised' = "NotificationError"
       ELSE EnterMethod(Dispatch(notification_type))
    /\ UNCHANGED << nop, notification_type, enabledEnv, delivery, toolCalls >>
    /\ UNCHANGED besidesNotify

\* lines 127-129, called on the service
send_typification_report ==
    /\ npc = "called"
    /\ nop = "send_typification_report"
    /\ EnterMethod("send_typification_report")
    /\ UNCHANGED << nop, notification_type, enabledEnv, delivery, toolCalls >>
    /\ UNCHANGED besidesNotify

\* lines 183-185, called on the service
send_human_handoff_notification ==
    /\ npc = "called"
    /\ nop = "send_human_handoff_notification"
    /\ EnterMethod("send_human_handoff_notification")
    /\ UNCHANGED << nop, notification_type, enabledEnv, delivery, toolCalls >>
    /\ UNCHANGED besidesNotify

\* lines 385-390, called on the service
send_custom_message ==
    /\ npc = "called"
    /\ nop = "send_custom_message"
    /\ EnterMethod("send_custom_message")
    /\ UNCHANGED << nop, notification_type, enabledEnv, delivery, toolCalls >>
    /\ UNCHANGED besidesNotify

\* lines 132, 188 and 392: await self._get_agent()
get_agent ==
    /\ npc = "get_agent"
    /\ \E o \in AgentOutcomes :
         /\ delivery' = [delivery EXCEPT !.agent = o]
         /\ raised' = Surfaces(o)
         /\ npc' = IF o = "ok" THEN "open_tools" ELSE "done"
    /\ UNCHANGED << nop, notification_type, enabledEnv, toolCalls >>
    /\ UNCHANGED besidesNotify

\* lines 146-149 and 159-161: the MCP tools are opened and the tool looked up
open_tools ==
    /\ npc = "open_tools"
    /\ \E o \in ToolsOutcomes :
         /\ delivery' = [delivery EXCEPT !.tools = o]
         /\ raised' = Surfaces(o)
         /\ npc' = IF o = "ok" THEN "call_tool" ELSE "done"
    /\ UNCHANGED << nop, notification_type, enabledEnv, toolCalls >>
    /\ UNCHANGED besidesNotify

\* lines 150-158: await tool_function.entrypoint(...)
call_tool ==
    /\ npc = "call_tool"
    /\ toolCalls' = toolCalls + 1
    /\ \E o \in CallOutcomes :
         /\ delivery' = [delivery EXCEPT !.call = o]
         /\ raised' = Surfaces(o)
    /\ npc' = "done"
    /\ UNCHANGED << nop, notification_type, enabledEnv >>
    /\ UNCHANGED besidesNotify

\* a public operation was called, with some value of the variable in the
\* environment of the process
InitNotify ==
    /\ npc = "called"
    /\ nop \in PublicOperations
    /\ notification_type \in IF nop = "send_workflow_notification"
                              THEN NotificationTypes ELSE {"none"}
    /\ enabledEnv \in EnabledValues
    /\ delivery = NoDelivery
    /\ toolCalls = 0
    /\ raised = "none"
    /\ ServeIdle
    /\ UninstallIdle
    /\ AgentIdle
    /\ RaceIdle

NextNotify ==
    \/ send_workflow_notification
    \/ send_typification_report
    \/ send_human_handoff_notification
    \/ send_custom_message
    \/ get_agent
    \/ open_tools
    \/ call_tool

SpecNotify == InitNotify /\ [][NextNotify]_vars

---------------------------------------------------------------------------
(* cli/core/agent_service.py: AgentService.serve_agent (lines 91-119) with  *)
(* _validate_agent_environment (258-271) and _start_agent_compose           *)
(* (428-512), and stop_agent (lines 121-142).  DockerComposeManager and     *)
(* security_utils are outside this source: what they give is an input.      *)

\* names of the status get_service_status("agent-dev-server", ...) reports
AgentStatuses == {"RUNNING", "STOPPED", "RESTARTING", "NOT_EXISTS"}

\* secure_resolve_workspace returns the path or raises SecurityError
ResolveOutcomes == {"resolved", "SecurityError"}

AgentCall(c) == [acalls EXCEPT ![c] = @ + 1]

\* _validate_agent_environment, lines 258-271
validate_agent_environment(env_agent, venv) == env_agent /\ venv

\* mutant: the service is started whatever its status
AfterServeStatus_always(status) == "start_compose"

\* lines 113-119: nothing is started for a service that is RUNNING
AfterServeStatus(status) ==
    IF status = "RUNNING" THEN "done" ELSE "start_compose"

\* lines 131-137: nothing is stopped unless the service is RUNNING
AfterStopStatus(status) ==
    IF status # "RUNNING" THEN "done" ELSE "stop_service"

\* lines 101-111: the workspace is resolved and validated
serve_agent ==
    /\ apc = "called"
    /\ aop = "serve_agent"
    /\ \E w \in ResolveOutcomes :
         /\ workspace' = w
         /\ IF w = "resolved"
                 /\ validate_agent_environment(envAgentExists, venvExists)
            THEN apc' = "serve_status" /\ aresult' = aresult
            ELSE apc' = "done" /\ aresult' = Return(FALSE)
    /\ UNCHANGED << aop, workspace_path, envAgentExists, venvExists,
                    agent_status, compose_result, started_status, acalls >>
    /\ UNCHANGED besidesAgent

\* lines 113-119
serve_agent_status ==
    /\ apc = "serve_status"
    /\ acalls' = AgentCall("get_service_status")
    /\ \E st \in AgentStatuses :
         /\ agent_status' = st
         /\ apc' = AfterServeStatus(st)
         /\ aresult' = IF AfterServeStatus(st) = "done" THEN Return(TRUE)
                        ELSE aresult
    /\ UNCHANGED << aop, workspace_path, workspace, envAgentExists,
                    venvExists, compose_result, started_status >>
    /\ UNCHANGED besidesAgent

\* _start_agent_compose, lines 428-485 and 506-512: `docker compose up -d`
\* through secure_subprocess_call; TimeoutExpired, SubprocessError and
\* OSError are caught at line 510
start_agent_compose ==
    /\ apc = "start_compose"
    /\ acalls' = AgentCall("compose_up")
    /\ \E r \in RunOutcomes :
         /\ compose_result' = r
         /\ CASE Succeeded(r) -> apc' = "start_status" /\ aresult' = aresult
              [] r.kind = "interrupt" ->
                   apc' = "done" /\ aresult' = Raise("KeyboardInterrupt")
              [] OTHER -> apc' = "done" /\ aresult' = Return(FALSE)
    /\ UNCHANGED << aop, workspace_path, workspace, envAgentExists,
                    venvExists, agent_status, started_status >>
    /\ UNCHANGED besidesAgent

\* lines 485-505: after the sleep the status is asked again
start_agent_status ==
    /\ apc = "start_status"
    /\ acalls' = AgentCall("get_service_status")
    /\ \E st \in AgentStatuses :
         /\ started_status' = st
         /\ IF st = "RUNNING"
            THEN apc' = "start_logs" /\ aresult' = aresult
            ELSE apc' = "done" /\ aresult' = Return(FALSE)
    /\ UNCHANGED << aop, workspace_path, workspace, envAgentExists,
                    venvExists, agent_status, compose_result >>
    /\ UNCHANGED besidesAgent

\* lines 493-502: the startup logs are shown, with or without text
start_agent_logs ==
    /\ apc = "start_logs"
    /\ acalls' = AgentCall("get_service_logs")
    /\ aresult' = Return(TRUE)
    /\ apc' = "done"
    /\ UNCHANGED << aop, workspace_path, workspace, envAgentExists,
                    venvExists, agent_status, compose_result, started_status >>
    /\ UNCHANGED besidesAgent

\* lines 130-135: workspace = workspace_path or "."
stop_agent ==
    /\ apc = "called"
    /\ aop = "stop_agent"
    /\ workspace' = IF workspace_path \in {"None", ""} THEN "."
                    ELSE workspace_path
    /\ acalls' = AgentCall("get_service_status")
    /\ \E st \in AgentStatuses :
         /\ agent_status' = st
         /\ apc' = AfterStopStatus(st)
         /\ aresult' = IF AfterStopStatus(st) = "done" THEN Return(TRUE)
                        ELSE aresult
    /\ UNCHANGED << aop, workspace_path, envAgentExists, venvExists,
                    compose_result, started_status >>
    /\ UNCHANGED besidesAgent

\* lines 137-142
stop_service ==
    /\ apc = "stop_service"
    /\ acalls' = AgentCall("stop_service")
    /\ \E stopped \in BOOLEAN : aresult' = Return(stopped)
    /\ apc' = "done"
    /\ UNCHANGED << aop, workspace_path, workspace, envAgentExists,
                    venvExists, agent_status, compose_result, started_status >>
    /\ UNCHANGED besidesAgent

\* serve_agent or stop_agent was called on a fresh AgentService, in a
\* workspace that has or lacks .env.agent and .venv
InitAgent ==
    /\ apc = "called"
    /\ aop \in {"serve_agent", "stop_agent"}
    /\ workspace_path \in IF aop = "stop_agent" THEN {"None", "", "ws"}
                           ELSE {"ws"}
    /\ workspace = "unset"
    /\ envAgentExists \in BOOLEAN
    /\ venvExists \in BOOLEAN
    /\ agent_status = "unset"
    /\ compose_result = NoRun
    /\ started_status = "unset"
    /\ acalls = [c \in AgentCommands |-> 0]
    /\ aresult = NoPending
    /\ ServeIdle
    /\ UninstallIdle
    /\ NotifyIdle
    /\ RaceIdle

NextAgent ==
    \/ serve_agent
    \/ serve_agent_status
    \/ start_agent_compose
    \/ start_agent_status
    \/ start_agent_logs
    \/ stop_agent
    \/ stop_service

SpecAgent == InitAgent /\ [][NextAgent]_vars

---------------------------------------------------------------------------
(* Two serve_local invocations (two terminals) on one workspace that has a  *)
(* compose file and a .env, with HIVE_DEV_KEEP_POSTGRES not set.  Each      *)
(* invocation runs lines 60-151 with its own locals; the container          *)
(* hive-postgres is the one thing they share.  The layers of the teardown   *)
(* are folded into one stop step and one remove step.                       *)

\* the label MainService.get_main_status gives for the container: the
\* Status Prober of the specification reports Running for a running
\* container and Stopped otherwise
StatusOf(c) ==
    [ kind |-> "label",
      text |-> IF c = "running" THEN RunningMarker
               ELSE << "STOP", " ", "S", "t", "o", "p", "p", "e", "d" >> ]

\* what docker does to the container: `compose up -d` (line 689) that
\* succeeds leaves it running, a stop (lines 724, 767) that succeeds leaves
\* a running container stopped, `compose rm -f` (line 746) that succeeds
\* removes a stopped container
UpEffect(ok, c) == IF ok THEN "running" ELSE c
StopEffect(ok, c) == IF ok /\ c = "running" THEN "stopped" ELSE c
RmEffect(ok, c) == IF ok /\ c = "stopped" THEN "absent" ELSE c

Goto(i, p) == rpc' = [rpc EXCEPT ![i] = p]

\* lines 666-684 in invocation i: the probe of _ensure_postgres_dependency
race_ensure_probe(i) ==
    /\ rpc[i] = "ensure_probe"
    /\ Goto(i, IF ReportsRunning(StatusOf(container)) THEN "serving"
               ELSE "ensure_start")
    /\ UNCHANGED << rstarted, container, tornBy >>
    /\ UNCHANGED besidesRace

\* lines 686-712 and 78-112 in invocation i: `compose up`, after which the
\* server is launched whatever the start gave
race_ensure_start(i) ==
    /\ rpc[i] = "ensure_start"
    /\ \E r \in {[kind |-> "exit", rc |-> 0, stderr |-> << >>],
                  [kind |-> "exit", rc |-> 1, stderr |-> << >>]} :
         /\ rstarted' = [rstarted EXCEPT ![i] = (StartReturn(r) = RetStarted)]
         /\ container' = UpEffect(Succeeded(r), container)
    /\ Goto(i, "serving")
    /\ UNCHANGED tornBy
    /\ UNCHANGED besidesRace

\* lines 98-141 in invocation i: the server of this invocation ends
race_server_ends(i) ==
    /\ rpc[i] = "serving"
    /\ Goto(i, "finally")
    /\ UNCHANGED << rstarted, container, tornBy >>
    /\ UNCHANGED besidesRace

\* lines 145-150 in invocation i
race_finally(i) ==
    /\ rpc[i] = "finally"
    /\ Goto(i, AfterFinally(KeepPostgres(Unset), rstarted[i]))
    /\ UNCHANGED << rstarted, container, tornBy >>
    /\ UNCHANGED besidesRace

\* line 150 in invocation i: _is_postgres_dependency_active()
race_fresh_probe(i) ==
    /\ rpc[i] = "fresh_probe"
    /\ Goto(i, AfterFresh(is_postgres_dependency_active(StatusOf(container))))
    /\ UNCHANGED << rstarted, container, tornBy >>
    /\ UNCHANGED besidesRace

\* lines 721-741 in invocation i: the container is stopped
race_stop(i) ==
    /\ rpc[i] = "td_begin"
    /\ \E ok \in BOOLEAN :
         /\ container' = StopEffect(ok, container)
         /\ tornBy' = IF StopEffect(ok, container) # container
                       THEN tornBy \cup {i} ELSE tornBy
    /\ Goto(i, "td_rm")
    /\ UNCHANGED rstarted
    /\ UNCHANGED besidesRace

\* lines 743-759 in invocation i: the container is removed
race_rm(i) ==
    /\ rpc[i] = "td_rm"
    /\ \E ok \in BOOLEAN :
         /\ container' = RmEffect(ok, container)
         /\ tornBy' = IF RmEffect(ok, container) # container
                       THEN tornBy \cup {i} ELSE tornBy
    /\ Goto(i, "exit")
    /\ UNCHANGED rstarted
    /\ UNCHANGED besidesRace

\* both terminals entered serve_local; the container is in some state
InitRace ==
    /\ rpc = [i \in Invocations |-> "ensure_probe"]
    /\ rstarted = [i \in Invocations |-> FALSE]
    /\ container \in {"absent", "stopped", "running"}
    /\ tornBy = {}
    /\ ServeIdle
    /\ UninstallIdle
    /\ NotifyIdle
    /\ AgentIdle

NextRace ==
    \/ \E i \in Invocations : race_ensure_probe(i)
    \/ \E i \in Invocations : race_ensure_start(i)
    \/ \E i \in Invocations : race_server_ends(i)
    \/ \E i \in Invocations : race_finally(i)
    \/ \E i \in Invocations : race_fresh_probe(i)
    \/ \E i \in Invocations : race_stop(i)
    \/ \E i \in Invocations : race_rm(i)

SpecRace == InitRace /\ [][NextRace]_vars

---------------------------------------------------------------------------
(* The state machine *)

\* a ServiceManager was constructed on some workspace and serve_local is
\* entered; nothing was invoked yet
Init ==
    /\ mainExists \in BOOLEAN
    /\ rootExists \in BOOLEAN
    /\ envExists \in BOOLEAN
    /\ pc = "serve_entry"
    /\ postgres_running = FALSE
    /\ postgres_started = FALSE
    /\ ens = NoEnsure
    /\ td = NoTeardown
    /\ issued = [c \in Commands |-> 0]
    /\ tdLog = << >>
    /\ keepEnv = Unset
    /\ use_graceful = FALSE
    /\ system = "unset"
    /\ fresh = "unset"
    /\ stopperCalls = 0
    /\ pending = NoPending
    /\ outcome = NoPending
    /\ freshStatus = NoProbe
    /\ interrupted = FALSE
    /\ UninstallIdle
    /\ NotifyIdle
    /\ AgentIdle
    /\ RaceIdle

Next ==
    \/ serve_enter
    \/ ensure_probe
    \/ ensure_start
    \/ serve_after_ensure
    \/ serve_run_default
    \/ serve_popen
    \/ serve_wait
    \/ serve_signal
    \/ serve_wait_bounded
    \/ serve_finally
    \/ serve_fresh_probe
    \/ stop_postgres_dependency
    \/ compose_stop
    \/ stop_postgres_by_container
    \/ compose_rm
    \/ remove_postgres_by_container
    \/ serve_exit

Spec == Init /\ [][Next]_vars

---------------------------------------------------------------------------
(* Properties of _ensure_postgres_dependency *)

RunningLabel == [kind |-> "label", text |-> RunningMarker]
StoppedLabel ==
    [kind |-> "label", text |-> << "STOP", " ", "S", "t", "o", "p", "p", "e", "d" >>]

NoComposeFile == ~mainExists /\ ~rootExists

OnlyProbeIssued ==
    /\ issued["probe"] = 1
    /\ \A c \in Commands \ {"probe"} : issued[c] = 0

\* C1 -- Idempotent start: whenever the status probe reports the dependency
\* as Running, _ensure_postgres_dependency returns (True, False) and no
\* `compose up` was invoked, whatever docker-compose.yml and .env are.
C1_IdempotentStart ==
    (pc = "ensure_return" /\ ens.status = RunningLabel)
        => (ens.ret = RetRunning /\ issued["compose_up"] = 0)

C1_Witness ==
    /\ pc = "ensure_return"
    /\ ens.status = RunningLabel
    /\ NoComposeFile
    /\ ~envExists
    /\ ens.ret = RetRunning

\* C2 as stated -- with no compose file at either candidate path, every
\* value _ensure_postgres_dependency returns is (False, False) and no
\* process was invoked beyond the status probe.
C2_MissingDescriptorAsStated ==
    (pc = "ensure_return" /\ NoComposeFile /\ ens.ret # RetInterrupt)
        => (ens.ret = RetFailed /\ OnlyProbeIssued)

\* C2 as amended -- with no compose file at either candidate path and a
\* status probe that completed without reporting Running (another label, or
\* an error of the probe), _ensure_postgres_dependency returns
\* (False, False) and no process was invoked beyond the status probe.
C2_MissingDescriptor ==
    ( /\ pc = "ensure_return"
      /\ NoComposeFile
      /\ ens.status.kind \in {"label", "error"}
      /\ ens.status # RunningLabel )
        => (ens.ret = RetFailed /\ OnlyProbeIssued)

C2_Witness ==
    /\ pc = "ensure_return"
    /\ NoComposeFile
    /\ envExists
    /\ ens.status = StoppedLabel
    /\ ens.compose_file = "none"
    /\ ens.ret = RetFailed

\* C3 -- Missing environment file: when the probe gave a label that is not
\* Running and a compose file is resolved but .env does not exist, the
\* result is (False, False) and `compose up` is never invoked; `compose up`
\* is invoked only if the probe did not report Running, a compose file
\* exists and .env exists.
C3_MissingEnvFile ==
    /\ ( /\ pc = "ensure_return"
         /\ ens.status.kind = "label"
         /\ ens.status # RunningLabel
         /\ ~NoComposeFile
         /\ ~envExists )
           => (ens.ret = RetFailed /\ issued["compose_up"] = 0)
    /\ issued["compose_up"] > 0
           => /\ ~NoComposeFile
              /\ envExists
              /\ pc = "ensure_return"
                    => (ens.status.kind = "label" /\ ens.status # RunningLabel)

C3_Witness ==
    /\ pc = "ensure_return"
    /\ ens.status = StoppedLabel
    /\ ens.compose_file = "root"
    /\ ~envExists
    /\ ens.ret = RetFailed
    /\ issued["compose_up"] = 0

\* C4 -- Start outcome: once `compose up` was invoked, the result is
\* (True, True) exactly when it exited with code 0, and (False, False) when
\* it exited non-zero, timed out or docker was not found; in none of these
\* cases does an error leave _ensure_postgres_dependency.
C4_StartOutcome ==
    (pc = "ensure_return" /\ issued["compose_up"] > 0)
        => /\ (ens.ret = RetStarted) <=> Succeeded(ens.result)
           /\ FailedHandled(ens.result) => ens.ret = RetFailed
           /\ ens.result.kind \in {"exit", "timeout", "notfound"}
                  => ens.ret \in {RetStarted, RetFailed}

C4_Witness ==
    /\ pc = "ensure_return"
    /\ issued["compose_up"] = 1
    /\ ens.result.kind = "timeout"
    /\ ens.ret = RetFailed

---------------------------------------------------------------------------
(* Properties of _stop_postgres_dependency *)

TeardownPcs ==
    {"td_compose_stop", "td_direct_stop", "td_compose_rm", "td_direct_rm"}

TeardownResults ==
    { td.stop_result, td.direct_stop, td.rm_result, td.direct_rm }

\* a command that was not run, succeeded, exited non-zero, timed out, or
\* found no docker binary
Benign(r) == r.kind \in {"none", "exit", "timeout", "notfound"}

\* C5 -- Teardown never raises: with a compose file present or absent, and
\* every stop and remove command succeeding, exiting non-zero, timing out or
\* finding no docker binary, _stop_postgres_dependency raises nothing and
\* goes on to its normal return.
C5_TeardownNeverRaises ==
    (td.state # "none" /\ \A r \in TeardownResults : Benign(r))
        => /\ td.state # "raised"
           /\ td.state = "active" => pc \in TeardownPcs
           /\ td.state = "returned" => pc \in {"exit", "done"}
           /\ pc \in {"exit", "done"} => td.state = "returned"

C5_Witness ==
    /\ td.state = "returned"
    /\ td.compose_args = "main"
    /\ td.stop_result.kind = "notfound"
    /\ td.direct_stop.kind = "timeout"
    /\ td.rm_result.kind = "exit"
    /\ td.rm_result.rc = 1

Warned(layer) == \E i \in 1..Len(tdLog) : tdLog[i].layer = layer /\ tdLog[i].warn

\* C6 -- One diagnostic line per failed layer: whenever a stop or remove
\* command of the teardown fails by a non-zero exit, a timeout or a missing
\* docker binary, a warning line was printed for that layer, also when the
\* failing command left stderr empty.
C6_WarningPerFailedLayer ==
    /\ FailedHandled(td.stop_result) => Warned("compose_stop")
    /\ FailedHandled(td.direct_stop) => Warned("docker_stop")
    /\ FailedHandled(td.rm_result) => Warned("compose_rm")
    /\ FailedHandled(td.direct_rm) => Warned("docker_rm")

\* the values of HIVE_DEV_KEEP_POSTGRES that set the override: "1", "true"
\* or "yes" in any letter case
TruthyKeepValues == { << "1" >>, << "T", "r", "u", "e" >>, << "Y", "E", "S" >> }

NoStopOrRemove ==
    /\ stopperCalls = 0
    /\ \A c \in {"compose_stop", "docker_stop", "compose_rm", "docker_rm"} :
          issued[c] = 0

\* C7 -- Keep-alive override honoured: when HIVE_DEV_KEEP_POSTGRES holds a
\* truthy value, a serve_local cycle performs no stop and no remove
\* invocation, however it ends and whether or not it started the dependency.
C7_KeepAliveHonoured ==
    keepEnv \in TruthyKeepValues => NoStopOrRemove

C7_Witness ==
    /\ pc = "done"
    /\ keepEnv = << "Y", "E", "S" >>
    /\ postgres_started
    /\ outcome.kind = "raise"
    /\ NoStopOrRemove

\* C8 -- Fallback chain: when `compose stop` exited non-zero and the direct
\* `docker stop` succeeded, the removal is the compose-based one if a compose
\* file exists, and never `docker rm`; with no compose file and a successful
\* `docker stop`, the removal is `docker rm`.
C8_FallbackChain ==
    /\ ( /\ td.compose_args \in {"main", "root"}
         /\ td.stop_result.kind = "exit"
         /\ td.stop_result.rc # 0
         /\ Succeeded(td.direct_stop) )
           => /\ pc = "td_compose_rm" \/ issued["compose_rm"] = 1
              /\ pc # "td_direct_rm"
              /\ issued["docker_rm"] = 0
    /\ (td.compose_args = "none" /\ Succeeded(td.direct_stop))
           => /\ pc = "td_direct_rm" \/ issued["docker_rm"] = 1
              /\ pc # "td_compose_rm"
              /\ issued["compose_rm"] = 0

C8_Witness ==
    /\ td.compose_args = "main"
    /\ td.stop_result.kind = "exit"
    /\ td.stop_result.rc = 1
    /\ Succeeded(td.direct_stop)
    /\ Succeeded(td.rm_result)
    /\ issued["docker_rm"] = 0
    /\ td.state = "returned"

\* C9 -- Layered stop: in a teardown `docker stop` is attempted if and only
\* if the compose-based stop did not succeed (no compose file, docker not
\* found, timeout or non-zero exit); never after a `compose stop` that
\* exited 0.
C9_LayeredStop ==
    td.state # "none"
        => /\ Succeeded(td.stop_result)
                 => (issued["docker_stop"] = 0 /\ pc # "td_direct_stop")
           /\ (td.compose_args = "none" \/ FailedHandled(td.stop_result))
                 => (pc = "td_direct_stop" \/ issued["docker_stop"] = 1)
           /\ issued["docker_stop"] > 0
                 => (td.compose_args = "none" \/ FailedHandled(td.stop_result))

C9_Witness ==
    /\ td.state = "returned"
    /\ td.stop_result.kind = "timeout"
    /\ issued["compose_stop"] = 1
    /\ issued["docker_stop"] = 1

---------------------------------------------------------------------------
(* Properties of serve_local *)

\* C10 -- Teardown on every exit path: with the override not set, however
\* serve_local ends (a return, an exception, an interrupt), the Stopper was
\* entered exactly once if _ensure_postgres_dependency reported
\* started_by_manager or the freshness probe at exit reported the dependency
\* active, and not at all otherwise.
C10_TeardownOnEveryExit ==
    (pc = "done" /\ keepEnv \notin TruthyKeepValues)
        => stopperCalls = (IF postgres_started \/ fresh = "True" THEN 1 ELSE 0)

C10_Witness ==
    /\ pc = "done"
    /\ keepEnv = Unset
    /\ ~postgres_started
    /\ fresh = "True"
    /\ outcome = Raise("ValueError")
    /\ stopperCalls = 1

C12_DependencyCheckAdvisory ==
    [][ /\ (pc = "ensure_return" /\ ens.ret = RetFailed)
              => pc' \in {"run_default", "popen"}
        /\ pc \in {"run_default", "popen"}
              => issued'["server"] = issued["server"] + 1 ]_vars

C12_Witness ==
    /\ pc = "finally"
    /\ NoComposeFile
    /\ ~postgres_running
    /\ issued["probe"] = 1
    /\ issued["compose_up"] = 0
    /\ issued["server"] = 1

\* C13 -- Interrupt handling: after a KeyboardInterrupt during the wait on
\* the server, in the default and in the graceful mode, a further interrupt
\* during the bounded wait included, the try body of serve_local ends with
\* `return True`.
C13_InterruptReturnsTrue ==
    (pc = "finally" /\ interrupted) => pending = Return(TRUE)

ContainerCommands ==
    {"compose_up", "compose_stop", "docker_stop", "compose_rm", "docker_rm"}

\* C14 -- Probe before action: within one serve_local invocation every
\* `compose up` and every stop or remove command comes after a status probe
\* of that invocation.
C14_ProbeBeforeAction ==
    (\E c \in ContainerCommands : issued[c] > 0) => issued["probe"] >= 1

C14_Witness ==
    /\ pc = "done"
    /\ postgres_started
    /\ issued["probe"] = 1
    /\ issued["compose_up"] = 1
    /\ issued["compose_stop"] = 1
    /\ issued["compose_rm"] = 1

TeardownIssued ==
    issued["compose_stop"] + issued["docker_stop"]
        + issued["compose_rm"] + issued["docker_rm"]

\* C15 -- No retries: within one serve_local invocation each container
\* command is invoked at most once, whatever the commands give, and a
\* teardown issues at most three commands.
C15_NoRetries ==
    /\ \A c \in ContainerCommands : issued[c] <= 1
    /\ TeardownIssued <= 3

C15_Witness ==
    /\ pc = "done"
    /\ issued["compose_up"] = 1
    /\ td.stop_result.kind = "exit"
    /\ td.stop_result.rc = 1
    /\ td.direct_stop.kind = "notfound"
    /\ td.rm_result.kind = "timeout"
    /\ TeardownIssued = 3

\* C16 -- Unexpected exceptions are contained: an error of an external call
\* that is no timeout, no missing binary and no non-zero exit (another
\* OSError) becomes a failure value in the status probe, the freshness
\* probe, _ensure_postgres_dependency and the teardown, and never leaves
\* the operation.
C16_UnexpectedContained ==
    /\ ( /\ pc = "ensure_return"
         /\ (ens.status.kind = "error" \/ ens.result.kind = "oserror") )
           => ens.ret = RetFailed
    /\ freshStatus.kind = "error" => fresh = "False"
    /\ (\A r \in TeardownResults : r.kind # "interrupt") => td.state # "raised"

\* C17 as stated -- a status query that fails is classified Stopped: by
\* _ensure_postgres_dependency, which then proceeds exactly as for a Stopped
\* dependency (with a compose file and .env present it invokes `compose up`),
\* and by the freshness check, which reports not active.
C17_ProbeFailureAsStated ==
    /\ (pc = "ensure_return" /\ ens.status.kind = "error")
           => /\ ens.ret # RetRunning
              /\ (~NoComposeFile /\ envExists) => issued["compose_up"] = 1
    /\ freshStatus.kind = "error" => fresh = "False"

\* C17 as amended -- a status query that raises is never classified Running:
\* _ensure_postgres_dependency returns (False, False) at once, without
\* resolving the compose file and without `compose up`, and the freshness
\* check reports not active, so that no teardown follows from it.
C17_ProbeFailure ==
    /\ (pc = "ensure_return" /\ ens.status.kind = "error")
           => /\ ens.ret = RetFailed
              /\ ens.compose_file = "unset"
              /\ issued["compose_up"] = 0
    /\ freshStatus.kind = "error" => (fresh = "False" /\ NoStopOrRemove)

C17_Witness ==
    /\ pc = "done"
    /\ ~NoComposeFile
    /\ envExists
    /\ ~postgres_running
    /\ issued["compose_up"] = 0
    /\ issued["server"] = 1
    /\ freshStatus.kind = "error"
    /\ fresh = "False"

\* the compose file the locator is to give in the present workspace
Located(f) ==
    /\ f = "main" <=> mainExists
    /\ f = "root" <=> (~mainExists /\ rootExists)
    /\ f = "none" <=> NoComposeFile

\* C18 -- Compose Locator priority: _resolve_compose_file gives
\* docker/main/docker-compose.yml whenever it exists, the root-level
\* docker-compose.yml only when the first is absent and the root file
\* exists, and nothing exactly when neither exists; what it gives exists,
\* and the files are left as they were.
C18_LocatorPriority ==
    [][ /\ ens'.compose_file # "unset" => Located(ens'.compose_file)
        /\ td'.compose_args # "unset" => Located(td'.compose_args)
        /\ mainExists' = mainExists
        /\ rootExists' = rootExists
        /\ envExists' = envExists ]_vars

C18_Witness ==
    /\ mainExists
    /\ rootExists
    /\ td.compose_args = "main"
    /\ td.state = "returned"

\* C19 -- Removal step: in a teardown that returns, with a compose file the
\* compose-based remove was attempted whatever the stops gave (also when
\* both failed) and `docker rm` was not; with no compose file `docker rm`
\* was attempted if and only if `docker stop` succeeded, and no other remove
\* command was issued.
C19_RemovalStep ==
    td.state = "returned"
        => /\ td.compose_args \in {"main", "root"}
                 => (issued["compose_rm"] = 1 /\ issued["docker_rm"] = 0)
           /\ td.compose_args = "none"
                 => /\ issued["compose_rm"] = 0
                    /\ issued["docker_rm"] = 1 <=> Succeeded(td.direct_stop)

C19_Witness ==
    /\ td.state = "returned"
    /\ td.compose_args = "root"
    /\ td.stop_result.kind = "timeout"
    /\ td.direct_stop.kind = "exit"
    /\ td.direct_stop.rc = 1
    /\ Succeeded(td.rm_result)
    /\ issued["docker_rm"] = 0

\* the phases of serve_local in their order
Rank(p) ==
    CASE p = "serve_entry" -> 0
      [] p = "ensure_probe" -> 1
      [] p = "ensure_start" -> 2
      [] p = "ensure_return" -> 3
      [] p \in {"run_default", "popen"} -> 4
      [] p = "wait" -> 5
      [] p = "signal" -> 6
      [] p = "wait10" -> 7
      [] p = "finally" -> 8
      [] p = "fresh_probe" -> 9
      [] p = "td_begin" -> 10
      [] p = "td_compose_stop" -> 11
      [] p = "td_direct_stop" -> 12
      [] p \in {"td_compose_rm", "td_direct_rm"} -> 13
      [] p = "exit" -> 14
      [] OTHER -> 15

\* C20 -- Lifecycle phase order: every step of serve_local moves forward
\* through check dependency, starting, server running, exiting, tearing
\* down; the server command is launched only once
\* _ensure_postgres_dependency has returned, `compose up` is never issued
\* once the server was launched, and the teardown decision and every stop
\* or remove command come only after the wait on the server is over.
C20_PhaseOrder ==
    [][ /\ Rank(pc') > Rank(pc)
        /\ issued'["server"] > issued["server"]
              => (Rank(pc) = 4 /\ ens = NoEnsure /\ issued["probe"] = 1)
        /\ issued'["compose_up"] > issued["compose_up"]
              => (Rank(pc) = 2 /\ issued["server"] = 0)
        /\ ( \/ stopperCalls' > stopperCalls
             \/ fresh' # fresh
             \/ \E c \in ContainerCommands \ {"compose_up"} :
                   issued'[c] > issued[c] )
              => Rank(pc) > 8 ]_vars

C20_Witness ==
    /\ pc = "done"
    /\ use_graceful
    /\ interrupted
    /\ issued["compose_up"] = 1
    /\ issued["server"] = 1
    /\ issued["compose_stop"] = 1
    /\ issued["compose_rm"] = 1

\* C21 -- Override parsing: the finally block skips the teardown exactly
\* when HIVE_DEV_KEEP_POSTGRES, lower-cased, is "1", "true" or "yes"; with
\* the variable absent or holding anything else ("0", "FALSE", "no", "",
\* "on") the decision is the usual one: the teardown if this invocation
\* started the dependency, the freshness probe otherwise.
C21_OverrideParsing ==
    [][ (pc = "finally" /\ pc' # "finally")
          => /\ (keepEnv' \in TruthyKeepValues) <=> (pc' = "exit")
             /\ (keepEnv' \notin TruthyKeepValues)
                   => pc' = IF postgres_started THEN "td_begin"
                            ELSE "fresh_probe" ]_vars

C21_Witness ==
    /\ keepEnv = << >>
    /\ postgres_started
    /\ td.state = "returned"
    /\ issued["compose_stop"] = 1

\* C27 -- Outcome invariant: whatever _ensure_postgres_dependency returns
\* is (True, False), (True, True) or (False, False), never (False, True);
\* (True, True) is returned only after `compose up` was invoked exactly once
\* in the call and exited 0; in serve_local postgres_started implies
\* postgres_running.
C27_OutcomeInvariant ==
    /\ (pc = "ensure_return" /\ ens.ret # RetInterrupt)
          => /\ ens.ret \in {"True,False", "True,True", "False,False"}
             /\ ens.ret = "True,True"
                   => /\ issued["compose_up"] = 1
                      /\ ens.result.kind = "exit"
                      /\ ens.result.rc = 0
             /\ ens.ret = "True,False" => issued["compose_up"] = 0
    /\ postgres_started => postgres_running

C27_Witness ==
    /\ pc = "ensure_return"
    /\ ens.ret = "True,True"
    /\ ens.status.text = << >>
    /\ issued["compose_up"] = 1

\* C29 -- No name-based remove when a descriptor exists: in a teardown that
\* found a compose file `docker rm` is never invoked and never the next
\* step, also when `compose rm` exited non-zero, timed out or found no
\* docker after a stop that succeeded; `compose rm` is then the last command
\* of the teardown.
C29_NoDirectRemove ==
    td.compose_args \in {"main", "root"}
        => /\ issued["docker_rm"] = 0
           /\ pc # "td_direct_rm"
           /\ td.direct_rm = NoRun
           /\ (td.stopped /\ FailedHandled(td.rm_result))
                 => (td.state = "returned" /\ pc \in {"exit", "done"})

C29_Witness ==
    /\ pc = "done"
    /\ td.compose_args = "main"
    /\ Succeeded(td.stop_result)
    /\ td.rm_result.kind = "exit"
    /\ td.rm_result.rc = 1
    /\ issued["compose_rm"] = 1
    /\ issued["docker_rm"] = 0

\* C28 -- serve_local result value: when serve_local returns after the wait
\* on a launched server was interrupted, in the default mode and in the
\* graceful mode alike, the value it returns is True.
C28_ResultValue ==
    (pc = "done" /\ outcome.kind = "return" /\ issued["server"] = 1
        /\ interrupted)
        => outcome.val = TRUE

---------------------------------------------------------------------------
(* Properties of the uninstall operations, under SpecUninstall *)

\* first answers that read "n" or "no" once stripped and lower-cased
DeclineTexts == { << "n" >>, << "N" >>, << "n", "o" >>, << " ", "N", "o", " " >> }

\* second answers that read "yes" once stripped and lower-cased
YesTexts == { << "y", "e", "s" >>, << "Y", "E", "S" >>, << " ", "Y", "e", "s", "\t" >> }

DoublyConfirmed ==
    /\ firstInput.kind = "text" /\ firstInput.text \in DeclineTexts
    /\ secondInput.kind = "text" /\ secondInput.text \in YesTexts

\* C23 -- Database wipe requires double confirmation: uninstall_main_only
\* invokes main_service.uninstall_wipe_data only after a first answer that
\* reads "n" or "no" and a second that reads "yes" (stripped, lower-cased);
\* after any other inputs, end-of-input and interrupt at either prompt
\* included, it ended with uninstall_preserve_data invoked once, or with
\* False and no MainService operation invoked.
C23_DoubleConfirmation ==
    /\ (upc = "wipe" \/ ms_calls["uninstall_wipe_data"] > 0) => DoublyConfirmed
    /\ (upc = "done" /\ main_result # NoPending /\ ~DoublyConfirmed)
          => /\ ms_calls["uninstall_wipe_data"] = 0
             /\ \/ ms_calls["uninstall_preserve_data"] = 1
                \/ /\ ms_calls["uninstall_preserve_data"] = 0
                   /\ main_result = Return(FALSE)
    /\ (firstInput.kind \in {"eof", "interrupt"} /\ upc = "done")
          => ms_calls["uninstall_preserve_data"] = 1
    /\ secondInput.kind \in {"eof", "interrupt"}
          => /\ main_result = Return(FALSE)
             /\ \A o \in MsOperations : ms_calls[o] = 0

C23_Witness ==
    /\ entry = "uninstall_main_only"
    /\ upc = "done"
    /\ firstInput.text = << " ", "N", "o", " " >>
    /\ secondInput.text = << " ", "Y", "e", "s", "\t" >>
    /\ ms_calls["uninstall_wipe_data"] = 1
    /\ main_result = Return(TRUE)

\* uninstall_environment ended at its prompt: nothing was asked further and
\* no MainService operation was invoked
CancelledAtPrompt ==
    /\ upc = "done"
    /\ env_result = Return(FALSE)
    /\ firstInput = NoInput
    /\ main_result = NoPending
    /\ \A o \in MsOperations : ms_calls[o] = 0

\* C24 as stated -- uninstall_environment invokes no uninstall operation and
\* returns False unless the line typed at the prompt is exactly WIPE ALL.
C24_ExactConfirmationAsStated ==
    ( /\ entry = "uninstall_environment"
      /\ upc # "env_prompt"
      /\ envInput # [kind |-> "text",
                     text |-> << "W", "I", "P", "E", " ", "A", "L", "L" >>] )
        => CancelledAtPrompt

\* the lines that read WIPE ALL once surrounding whitespace is stripped
AcceptedWipeAll ==
    { << "W", "I", "P", "E", " ", "A", "L", "L" >>,
      << "W", "I", "P", "E", " ", "A", "L", "L", " " >> }

\* C24 -- Complete uninstall requires the confirmation: uninstall_environment
\* invokes no uninstall operation and returns False unless the line typed at
\* the prompt, with surrounding whitespace stripped, is exactly WIPE ALL
\* (in upper case); end-of-input, an interrupt or an error of the prompt
\* cancels; after the confirmation it returns True exactly when
\* uninstall_main_only returned True.
C24_ExactConfirmation ==
    entry = "uninstall_environment"
        => /\ ( /\ upc # "env_prompt"
                /\ ~(envInput.kind = "text" /\ envInput.text \in AcceptedWipeAll) )
                 => CancelledAtPrompt
           /\ (upc = "done" /\ main_result # NoPending)
                 => (env_result = Return(TRUE) <=> main_result = Return(TRUE))

C24_Witness ==
    /\ entry = "uninstall_environment"
    /\ envInput.text = << "W", "I", "P", "E", " ", "A", "L", "L", " " >>
    /\ upc = "done"
    /\ ms_calls["uninstall_preserve_data"] = 1
    /\ env_result = Return(TRUE)

---------------------------------------------------------------------------
(* Properties of the WhatsApp notifications, under SpecNotify *)

\* the values that read "true" once lower-cased
EnabledTexts ==
    { << "t", "r", "u", "e" >>, << "T", "R", "U", "E" >>, << "T", "r", "u", "e" >> }

KnownTypes == {"typification_report", "human_handoff", "custom"}

\* a step of the send failed: an Exception, or the tool was not there
DeliveryFailed ==
    \/ delivery.agent = "error"
    \/ delivery.tools \in {"error", "no_tool"}
    \/ delivery.call = "error"

DeliveryCancelled == delivery.tools = "cancelled" \/ delivery.call = "cancelled"

\* C25 -- send_workflow_notification raises NotificationError and attempts
\* no delivery (no agent, no MCP tools, no tool call) when
\* HIVE_WHATSAPP_NOTIFICATIONS_ENABLED does not read "true" in any case or
\* the type is none of typification_report, human_handoff, custom; a
\* dispatched send that fails leaves with NotificationError, and no
\* exception of another type leaves unless the awaiting task was cancelled.
C25_WorkflowNotificationErrors ==
    nop = "send_workflow_notification"
        => /\ ( /\ npc # "called"
                /\ \/ enabledEnv \notin EnabledTexts
                   \/ notification_type \notin KnownTypes )
                 => /\ npc = "done"
                    /\ raised = "NotificationError"
                    /\ delivery = NoDelivery
                    /\ toolCalls = 0
           /\ DeliveryFailed => (npc = "done" /\ raised = "NotificationError")
           /\ raised \notin {"none", "NotificationError"} => DeliveryCancelled

C25_Witness ==
    /\ nop = "send_workflow_notification"
    /\ notification_type = "custom"
    /\ enabledEnv = << "T", "R", "U", "E" >>
    /\ delivery.call = "error"
    /\ toolCalls = 1
    /\ raised = "NotificationError"

\* C30 -- Notification gating on every public send operation: while
\* HIVE_WHATSAPP_NOTIFICATIONS_ENABLED does not read "true", the
\* send_text_message tool is not invoked, whichever public operation was
\* called.
C30_GatingEverywhere ==
    enabledEnv \notin EnabledTexts => toolCalls = 0

---------------------------------------------------------------------------
(* Properties of the agent server operations, under SpecAgent *)

\* C26 -- Agent server start and stop are no-ops where nothing is to do:
\* serve_agent returns True without a `compose up` when agent-dev-server is
\* reported RUNNING; it returns False without asking for the status or
\* starting anything when the workspace is refused or .env.agent or .venv
\* is missing; stop_agent returns True without a stop_service when the
\* service is not reported RUNNING.
C26_IdempotentNoOps ==
    /\ (aop = "serve_agent" /\ agent_status = "RUNNING")
          => /\ apc = "done"
             /\ aresult = Return(TRUE)
             /\ acalls = [c \in AgentCommands |->
                            IF c = "get_service_status" THEN 1 ELSE 0]
    /\ ( /\ aop = "serve_agent"
         /\ apc # "called"
         /\ workspace = "SecurityError" \/ ~envAgentExists \/ ~venvExists )
          => /\ apc = "done"
             /\ aresult = Return(FALSE)
             /\ \A c \in AgentCommands : acalls[c] = 0
    /\ (aop = "stop_agent" /\ apc # "called" /\ agent_status # "RUNNING")
          => /\ apc = "done"
             /\ aresult = Return(TRUE)
             /\ acalls["stop_service"] = 0

C26_Witness ==
    /\ aop = "serve_agent"
    /\ apc = "done"
    /\ agent_status = "RUNNING"
    /\ aresult = Return(TRUE)
    /\ acalls["compose_up"] = 0

---------------------------------------------------------------------------
(* Properties of two concurrent invocations, under SpecRace *)

RaceTeardownPcs == {"finally", "fresh_probe", "td_begin", "td_rm"}

\* C22 -- Uncoordinated concurrent invocations: with the override not set,
\* whether an invocation tears the container down rests on its own
\* postgres_started flag and on the probe alone, a teardown once begun goes
\* through its stop and its remove, and no step of it waits for or changes
\* the other invocation, whose server goes on running.  A state where one
\* invocation has stopped or removed the container under the running
\* server of the other is reachable (C22_Witness).
C22_UncoordinatedTeardown ==
    [][ \A i \in Invocations : \A j \in Invocations \ {i} :
          (rpc[i] \in RaceTeardownPcs /\ rpc'[i] # rpc[i])
             => /\ rpc'[j] = rpc[j]
                /\ rpc[i] = "finally"
                      => rpc'[i] = IF rstarted[i] THEN "td_begin"
                                   ELSE "fresh_probe"
                /\ rpc[i] = "fresh_probe"
                      => rpc'[i] = IF container = "running" THEN "td_begin"
                                   ELSE "exit"
                /\ rpc[i] = "td_begin" => rpc'[i] = "td_rm"
                /\ rpc[i] = "td_rm" => rpc'[i] = "exit" ]_vars

C22_Witness ==
    \E i \in Invocations : \E j \in Invocations \ {i} :
        /\ i \in tornBy
        /\ rpc[i] \in {"td_rm", "exit"}
        /\ rpc[j] = "serving"
        /\ container \in {"stopped", "absent"}

===========================================================================
